---- MODULE Spec2Model ----
(***************************************************************************)
(* A model of TransLens' translation service (src/gguf_model.py): the      *)
(* sliding-window rate limiter of TranslationProvider, the SQLite-backed   *)
(* TranslationCache (translation_cache, word_frequency, word_memory) and   *)
(* the two request handlers translate_word and mark_word_as_easy.          *)
(*                                                                         *)
(* The handlers are asyncio coroutines: the code between two awaits runs   *)
(* without interleaving, so an action below is such a segment, from the    *)
(* completion of one await to the start of the next.  Consecutive segments *)
(* that only read the database are one action, and so are a statement and  *)
(* the commit that follows it at once: the write lock is held between them.*)
(***************************************************************************)
EXTENDS Integers, Sequences, FiniteSets, TLC

\* ------------------------------------------------------------------ bounds
\* Concurrent requests of the full service (Spec).
NumRequests == 2
\* Concurrent callers of TranslationProvider.translate (SpecLimiter).
NumCallers == 3
\* Requests that arrive in all; a finished request's slot takes the next one.
MaxArrivals == 3
\* The clock runs from 0 to MaxTime (Spec), MaxLimiterTime (SpecLimiter) or
\* MaxMarkEasyTime (SpecMarkEasy).
MaxTime == 2
MaxLimiterTime == 3
MaxMarkEasyTime == 4
\* The clock of SpecSuppress reaches the second before, the second of and the
\* second after each of the days 0..MaxDays.
MaxDays == 1
\* get_eligible_words is given at most MaxWords words, at a time and over rows
\* with suppress_until between 0 and MaxSuppressUntil (SpecEligible).
MaxWords == 2
MaxSuppressUntil == 2
\* rate_limit_count is configured between 0 (disabled) and MaxCapacity (Spec)
\* or MaxLimiterCapacity (SpecLimiter).
MaxCapacity == 1
MaxLimiterCapacity == 2
\* rate_limit_period_seconds as configured for the model (config.ini).
rate_limit_period == 2

\* ------------------------------------------------------- program constants
\* len(translated_content) > 30 is rejected.
MaxTranslationLen == 30
\* suppress_duration_seconds = days_to_suppress * 24 * 60 * 60
SecondsPerDay == 24 * 60 * 60

\* ------------------------------------------------------------------ inputs
\* request.json()["sentence"]: "" stands for a missing or empty field.
Sentences == {"", "de", "maozuo"}
\* The words the tagger finds in them.
Words == {"mao", "zuo"}
\* request.json()["word"] of /mark_easy: "" stands for a missing or empty field.
MarkWords == {"", "mao"}
\* What the provider's HTTP call can come back with: a transport failure, a
\* non-success status, a body without choices[0].message.content, or a content.
Overlong == "0123456789012345678901234567890"
Contents == {"", "cat", Overlong}
ProviderReplies == {[kind |-> "RequestError", content |-> ""],
                    [kind |-> "HTTPStatusError", content |-> ""],
                    [kind |-> "KeyError", content |-> ""]}
                   \cup {[kind |-> "content", content |-> c] : c \in Contents}

VARIABLES
    now,                 \* time.time()
    rate_limit_count,    \* TranslationProvider.rate_limit_count
    request_timestamps,  \* TranslationProvider.request_timestamps (deque)
    rate_limit_lock,     \* asyncio.Lock: [holder, waiters]
    translation_cache,   \* table translation_cache: a set of rows
    word_frequency,      \* table word_frequency as committed: a set of rows
    word_memory,         \* table word_memory: a set of rows
    db_lock,             \* the connection holding SQLite's write lock, 0 if none
    db_uncommitted,      \* word_frequency as the write transaction sees it
    pc,                  \* where each request's coroutine is suspended
    local,               \* each request's local variables
    disconnected,        \* request.is_disconnected()
    response,            \* what the handler returned or raised
    hist,                \* per request: what it has done so far
    arrivals,            \* how many requests have arrived so far
    increments           \* per word, the increment_word_frequency calls that returned

vars == <<now, rate_limit_count, request_timestamps, rate_limit_lock,
          translation_cache, word_frequency, word_memory, db_lock,
          db_uncommitted, pc, local, disconnected, response, hist, arrivals,
          increments>>

limiter_vars == <<request_timestamps, rate_limit_lock>>
db_vars == <<translation_cache, word_frequency, word_memory, db_lock, db_uncommitted>>

Requests == DOMAIN pc

\* -------------------------------------------------------------- exceptions
NoException == [type |-> "", status_code |-> 0, detail |-> ""]
ClientDisconnectedError == [type |-> "ClientDisconnectedError", status_code |-> 0, detail |-> ""]
HTTPException(status_code, detail) ==
    [type |-> "HTTPException", status_code |-> status_code, detail |-> detail]
OtherError(type) == [type |-> type, status_code |-> 0, detail |-> type]

\* ---------------------------------------------------------------- responses
Pending == [kind |-> "pending", status_code |-> 0, detail |-> "",
            target_word |-> "", translation |-> "", from_cache |-> FALSE,
            new_level |-> 0, suppress_days |-> 0]
ReturnNone == [Pending EXCEPT !.kind = "none"]
Raised(e) == [Pending EXCEPT !.kind = "error", !.status_code = e.status_code,
                             !.detail = e.detail]
Translated(target_word, translation, from_cache) ==
    [Pending EXCEPT !.kind = "ok", !.status_code = 200, !.target_word = target_word,
                    !.translation = translation, !.from_cache = from_cache]
Marked(word, new_level, days) ==
    [Pending EXCEPT !.kind = "ok", !.status_code = 200, !.target_word = word,
                    !.new_level = new_level, !.suppress_days = days]

\* translate_word with `except Exception` alone: a disconnect becomes a 502 too.
translate_word_except_all(e) == Raised(HTTPException(502, e.detail))

\* translate_word's except clauses: ClientDisconnectedError returns nothing,
\* every other Exception (HTTPException included) is re-raised as a 502.
translate_word_except(e) ==
    IF e.type = "ClientDisconnectedError"
    THEN ReturnNone
    ELSE Raised(HTTPException(502, e.detail))

\* mark_word_as_easy's except clause: every Exception is re-raised as a 500.
mark_word_as_easy_except(e) == Raised(HTTPException(500, e.detail))

\* ------------------------------------------------------------------ locals
\* words and eligible are get_eligible_words' argument and result; the handlers
\* keep of them only the word chosen.
NoLocals == [sentence |-> "", words |-> <<>>, eligible |-> <<>>,
             target_word |-> "", word |-> "", translated_content |-> "",
             timestamp |-> 0, current_time |-> 0, end_time |-> 0,
             new_level |-> 0, suppress_until |-> 0]
NoHist == [exc |-> NoException, selected |-> FALSE, cached |-> <<>>, looked_up |-> FALSE,
           acquire |-> "", before |-> <<>>, after |-> <<>>,
           provider_called |-> FALSE, cache_written |-> FALSE]

TypeOK ==
    /\ now \in Nat
    /\ rate_limit_count \in Nat
    /\ \A i \in 1..Len(request_timestamps) : request_timestamps[i] \in 0..now
    /\ rate_limit_lock.holder \in Requests \cup {0}
    /\ db_lock \in Requests \cup {0}
    /\ disconnected \in [Requests -> BOOLEAN]

InitWith(n, capacity) ==
    /\ now = 0
    /\ rate_limit_count \in 0..capacity
    /\ request_timestamps = <<>>
    /\ rate_limit_lock = [holder |-> 0, waiters |-> <<>>]
    /\ translation_cache = {}
    /\ word_frequency = {}
    /\ word_memory = {}
    /\ db_lock = 0
    /\ db_uncommitted = {}
    /\ pc = [r \in 1..n |-> "idle"]
    /\ local = [r \in 1..n |-> NoLocals]
    /\ disconnected = [r \in 1..n |-> FALSE]
    /\ response = [r \in 1..n |-> Pending]
    /\ hist = [r \in 1..n |-> NoHist]
    /\ arrivals = 0
    /\ increments = [word \in Words |-> 0]

Init == InitWith(NumRequests, MaxCapacity)

\* The handler of request r ends: it returned or raised `resp`.
Finish(r, resp) ==
    /\ pc' = [pc EXCEPT ![r] = "done"]
    /\ response' = [response EXCEPT ![r] = resp]

\* A new request arrives and is given to a free handler slot r.
Arrives(r) ==
    /\ pc[r] \in {"idle", "done"}
    /\ arrivals < MaxArrivals
    /\ arrivals' = arrivals + 1
    /\ disconnected' = [disconnected EXCEPT ![r] = FALSE]

\* ------------------------------------------------------------ rate limiter
\* The prune with <= for <: it also drops a timestamp exactly one period old.
RECURSIVE PopExpiredInclusive(_, _)
PopExpiredInclusive(ts, limit) ==
    IF ts # <<>> /\ Head(ts) <= limit THEN PopExpiredInclusive(Tail(ts), limit) ELSE ts

\* while self.request_timestamps and self.request_timestamps[0] < limit: popleft()
RECURSIVE PopExpired(_, _)
PopExpired(ts, limit) ==
    IF ts # <<>> /\ Head(ts) < limit THEN PopExpired(Tail(ts), limit) ELSE ts

\* The wait one second short.
WaitTimeShort(ts, current_time) == Head(ts) + rate_limit_period - current_time - 1

\* wait_time = self.request_timestamps[0] + self.rate_limit_period - current_time
WaitTime(ts, current_time) == Head(ts) + rate_limit_period - current_time

\* if len(self.request_timestamps) >= self.rate_limit_count: ... if wait_time > 0
MustWait(ts, current_time) ==
    /\ Len(ts) >= rate_limit_count
    /\ WaitTime(ts, current_time) > 0

\* self.request_timestamps.append(time.time())
Admit(ts, t) == Append(ts, t)

\* The lock kept on leaving the `async with` block.
ReleaseNot(lock) == lock

\* Leaving the `async with self.rate_limit_lock` block releases the lock.
Release(lock) == [lock EXCEPT !.holder = 0]

\* No lock: every caller walks in.
LockFreeAlways == TRUE

\* asyncio.Lock.acquire() returns at once only if the lock is neither held nor
\* queued for; otherwise the caller joins the FIFO of waiters.
LockFree == rate_limit_lock.holder = 0 /\ rate_limit_lock.waiters = <<>>

\* _wait_for_rate_limit from the moment the lock is taken to its first await:
\* prune, then either start the wait loop (the lock stays held: the loop is
\* inside `async with self.rate_limit_lock`) or append and leave.  `loc` and `h`
\* are r's locals and history on entry, `waiters` the lock's queue without r.
CriticalSection(r, loc, h, waiters) ==
    LET current_time == now
        pruned == PopExpired(request_timestamps, current_time - rate_limit_period)
        entered == [h EXCEPT !.before = request_timestamps]
    IN  IF MustWait(pruned, current_time)
        THEN /\ request_timestamps' = pruned
             /\ rate_limit_lock' = [holder |-> r, waiters |-> waiters]
             /\ local' = [local EXCEPT ![r] =
                    [loc EXCEPT !.current_time = current_time,
                                !.end_time = now + WaitTime(pruned, current_time)]]
             /\ hist' = [hist EXCEPT ![r] = [entered EXCEPT !.acquire = "waiting"]]
             /\ pc' = [pc EXCEPT ![r] = "rl_poll"]
        ELSE /\ request_timestamps' = Admit(pruned, now)
             /\ rate_limit_lock' = [holder |-> 0, waiters |-> waiters]
             /\ local' = [local EXCEPT ![r] = [loc EXCEPT !.current_time = current_time]]
             /\ hist' = [hist EXCEPT ![r] =
                    [entered EXCEPT !.acquire = "admitted",
                                    !.after = Admit(pruned, now)]]
             /\ pc' = [pc EXCEPT ![r] = "recheck"]

\* The return of line 151 taken for an admission to record.
UnlimitedRecorded(r, loc, h) ==
    /\ local' = [local EXCEPT ![r] = loc]
    /\ hist' = [hist EXCEPT ![r] = [h EXCEPT !.acquire = "unlimited"]]
    /\ pc' = [pc EXCEPT ![r] = "recheck"]
    /\ request_timestamps' = Admit(request_timestamps, now)
    /\ UNCHANGED rate_limit_lock

\* if self.rate_limit_count <= 0: return
Unlimited(r, loc, h) ==
    /\ local' = [local EXCEPT ![r] = loc]
    /\ hist' = [hist EXCEPT ![r] = [h EXCEPT !.acquire = "unlimited"]]
    /\ pc' = [pc EXCEPT ![r] = "recheck"]
    /\ UNCHANGED limiter_vars

\* TranslationProvider.translate up to its first await: the rate limiter is
\* skipped when rate_limit_count <= 0, entered when the lock is free, queued
\* for otherwise.
TranslateCall(r, loc, h) ==
    IF rate_limit_count <= 0
    THEN Unlimited(r, loc, h)
    ELSE IF LockFree
    THEN CriticalSection(r, loc, h, <<>>)
    ELSE /\ rate_limit_lock' = [rate_limit_lock EXCEPT !.waiters = Append(@, r)]
         /\ local' = [local EXCEPT ![r] = loc]
         /\ hist' = [hist EXCEPT ![r] = [h EXCEPT !.acquire = "queued"]]
         /\ pc' = [pc EXCEPT ![r] = "rl_lock"]
         /\ UNCHANGED request_timestamps

\* The released lock wakes its first waiter, which takes the lock.
LockGranted(r) ==
    /\ pc[r] = "rl_lock"
    /\ rate_limit_lock.holder = 0
    /\ rate_limit_lock.waiters # <<>>
    /\ Head(rate_limit_lock.waiters) = r
    /\ CriticalSection(r, local[r], hist[r], Tail(rate_limit_lock.waiters))
    /\ UNCHANGED <<now, rate_limit_count, arrivals, increments, db_vars, disconnected, response>>

\* `if await request.is_disconnected(): raise ClientDisconnectedError()` in the
\* wait loop; the exception leaves the `async with` (releasing the lock) and is
\* caught by translate_word.  Otherwise `await asyncio.sleep(0.1)`.
PollDisconnect(r) ==
    /\ pc[r] = "rl_poll"
    /\ IF disconnected[r]
       THEN /\ rate_limit_lock' = Release(rate_limit_lock)
            /\ hist' = [hist EXCEPT ![r] =
                   [@ EXCEPT !.acquire = "cancelled", !.after = request_timestamps,
                             !.exc = ClientDisconnectedError]]
            /\ Finish(r, translate_word_except(ClientDisconnectedError))
       ELSE /\ pc' = [pc EXCEPT ![r] = "rl_sleep"]
            /\ UNCHANGED <<rate_limit_lock, hist, response>>
    /\ UNCHANGED <<now, rate_limit_count, arrivals, increments, request_timestamps, db_vars, local,
                   disconnected>>

\* asyncio.sleep(0.1) returns: `while time.time() < end_time` either polls
\* again or falls through to the append at the end of the critical section.
WakeUp(r) ==
    /\ pc[r] = "rl_sleep"
    /\ IF now < local[r].end_time
       THEN /\ pc' = [pc EXCEPT ![r] = "rl_poll"]
            /\ UNCHANGED <<limiter_vars, hist>>
       ELSE /\ request_timestamps' = Admit(request_timestamps, now)
            /\ rate_limit_lock' = Release(rate_limit_lock)
            /\ hist' = [hist EXCEPT ![r] =
                   [@ EXCEPT !.acquire = "admitted",
                             !.after = Admit(request_timestamps, now)]]
            /\ pc' = [pc EXCEPT ![r] = "recheck"]
    /\ UNCHANGED <<now, rate_limit_count, arrivals, increments, db_vars, local, disconnected, response>>

\* The final `if await request.is_disconnected()` of translate, then the
\* provider's HTTP call is started.
Recheck(r) ==
    /\ pc[r] = "recheck"
    /\ IF disconnected[r]
       THEN /\ hist' = [hist EXCEPT ![r].exc = ClientDisconnectedError]
            /\ Finish(r, translate_word_except(ClientDisconnectedError))
       ELSE /\ hist' = [hist EXCEPT ![r].provider_called = TRUE]
            /\ pc' = [pc EXCEPT ![r] = "provider"]
            /\ UNCHANGED response
    /\ UNCHANGED <<now, rate_limit_count, arrivals, increments, limiter_vars, db_vars, local, disconnected>>

\* The client goes away.  The code looks at request.is_disconnected() only
\* inside translate, so a disconnect before that is seen as one on entering it.
Disconnect(r) ==
    /\ pc[r] \in {"rl_lock", "rl_poll", "rl_sleep", "recheck"}
    /\ ~disconnected[r]
    /\ disconnected' = [disconnected EXCEPT ![r] = TRUE]
    /\ UNCHANGED <<now, rate_limit_count, arrivals, increments, limiter_vars, db_vars, pc, local,
                   response, hist>>

\* translate_word arrives at line 294 (a cache miss) and calls the provider.
CallTranslate(r) ==
    /\ Arrives(r)
    /\ TranslateCall(r, [NoLocals EXCEPT !.sentence = "maozuo", !.target_word = "mao"],
                     [NoHist EXCEPT !.selected = TRUE, !.looked_up = TRUE])
    /\ response' = [response EXCEPT ![r] = Pending]
    /\ UNCHANGED <<now, rate_limit_count, increments, db_vars>>

\* --------------------------------------------------------------- database
\* Every request has its own aiosqlite connection.  A connection's first
\* INSERT/UPDATE opens a transaction that holds SQLite's write lock until its
\* commit; another connection's INSERT/UPDATE waits for the lock (the busy
\* handler), and its SELECTs see the committed rows only.

\* TranslationCache._generate_key: the digest of f"{sentence}|{target_word}".
generate_key(sentence, target_word) == sentence \o "|" \o target_word

\* TranslationCache.get: row[0] if row else None; <<>> stands for None.
cache_get(rows, sentence, target_word) ==
    LET found == {row \in rows : row.key = generate_key(sentence, target_word)}
    IN  IF found = {} THEN <<>> ELSE <<(CHOOSE row \in found : TRUE).translation>>

\* `if cached:` is Python truthiness: None and "" are both false.
Truthy(cached) == cached # <<>> /\ cached[1] # ""

\* The statement as INSERT OR IGNORE: a row already there is kept.
cache_set_ignore(rows, sentence, target_word, translation, timestamp) ==
    LET key == generate_key(sentence, target_word)
    IN  IF \E row \in rows : row.key = key
        THEN rows
        ELSE rows \cup {[key |-> key, sentence |-> sentence, target_word |-> target_word,
                         translation |-> translation, timestamp |-> timestamp]}

\* INSERT OR REPLACE INTO translation_cache VALUES (key, sentence, word, translation, timestamp)
cache_set(rows, sentence, target_word, translation, timestamp) ==
    LET key == generate_key(sentence, target_word)
    IN  {row \in rows : row.key # key}
        \cup {[key |-> key, sentence |-> sentence, target_word |-> target_word,
               translation |-> translation, timestamp |-> timestamp]}

\* TranslationCache.get_word_frequency: row[0] if row else 0
get_word_frequency(rows, word) ==
    LET found == {row \in rows : row.word = word}
    IN  IF found = {} THEN 0 ELSE (CHOOSE row \in found : TRUE).frequency

\* The UPDATE without its "+ 1".
UpdateFrequencySame(rows, word) == rows

\* UPDATE word_frequency SET frequency = frequency + 1 WHERE word = ?
UpdateFrequency(rows, word) ==
    {IF row.word = word THEN [row EXCEPT !.frequency = @ + 1] ELSE row : row \in rows}

\* The INSERT leaving frequency to the column's DEFAULT 0.
InsertFrequencyDefault(rows, word) == rows \cup {[word |-> word, frequency |-> 0]}

\* INSERT INTO word_frequency (word, frequency) VALUES (?, 1)
InsertFrequency(rows, word) == rows \cup {[word |-> word, frequency |-> 1]}

\* No filter at all: every candidate is eligible.
get_eligible_words_all(words, rows, current_time) == words

\* The query with suppress_until >= ? for suppress_until > ?.
get_eligible_words_inclusive(words, rows, current_time) ==
    LET suppressed_words == {row.word : row \in
            {m \in rows : (\E i \in 1..Len(words) : words[i] = m.word)
                          /\ m.suppress_until >= current_time}}
        NotSuppressed(word) == word \notin suppressed_words
    IN  SelectSeq(words, NotSuppressed)

\* TranslationCache.get_eligible_words: the words without a word_memory row
\* whose suppress_until > current_time, in the order given.
get_eligible_words(words, rows, current_time) ==
    LET suppressed_words == {row.word : row \in
            {m \in rows : (\E i \in 1..Len(words) : words[i] = m.word)
                          /\ m.suppress_until > current_time}}
        NotSuppressed(word) == word \notin suppressed_words
    IN  SelectSeq(words, NotSuppressed)

\* TranslationCache.weighted_choice: the words random.choices can return under
\* weights 1.0 / (freq + 1), a weight being the fraction num/den.
Weight(freq) == [num |-> 1, den |-> freq + 1]
weighted_choice(words, rows) ==
    IF Len(words) = 0 THEN {}
    ELSE IF Len(words) = 1 THEN {words[1]}
    ELSE {words[i] : i \in {k \in 1..Len(words) :
              Weight(get_word_frequency(rows, words[k])).num > 0}}

\* SELECT level FROM word_memory WHERE word = ?; row['level'] if row else 0
current_level(rows, word) ==
    LET found == {row \in rows : row.word = word}
    IN  IF found = {} THEN 0 ELSE (CHOOSE row \in found : TRUE).level

\* The schedule without the square: new_level days.
days_to_suppress_linear(new_level) == new_level

\* days_to_suppress = new_level ** 2
days_to_suppress(new_level) == new_level * new_level

\* INSERT OR REPLACE INTO word_memory (word, level, suppress_until) VALUES (?, ?, ?)
memory_set(rows, word, level, suppress_until) ==
    {row \in rows : row.word # word}
    \cup {[word |-> word, level |-> level, suppress_until |-> suppress_until]}

\* pseg.lcut and the noun/verb filter: the words of a sentence that can be chosen.
Tagger(sentence) ==
    CASE sentence = "mao" -> {"mao"}
      [] sentence = "maozuo" -> {"mao", "zuo"}
      [] OTHER -> {}

\* list(set(...)): the candidates in an order the program does not control.
Orderings(S) ==
    {seq \in [1..Cardinality(S) -> S] : \A w \in S : \E i \in 1..Cardinality(S) : seq[i] = w}

\* ---------------------------------------------------------- translate_word
\* request.json(), the checks on the sentence and its candidates,
\* get_eligible_words and weighted_choice, up to the UPDATE of
\* increment_word_frequency.
TranslateBegin(r) ==
    /\ Arrives(r)
    /\ \E context_sentence \in Sentences :
       \E candidate_words \in Orderings(Tagger(context_sentence)) :
        LET eligible_words == get_eligible_words(candidate_words, word_memory, now)
            Fail(e) == /\ hist' = [hist EXCEPT ![r] = [NoHist EXCEPT !.exc = e]]
                       /\ Finish(r, translate_word_except(e))
                       /\ local' = [local EXCEPT ![r] =
                              [NoLocals EXCEPT !.sentence = context_sentence]]
        IN  IF context_sentence = ""
            THEN Fail(HTTPException(400, "sentence required"))
            ELSE IF candidate_words = <<>>
            THEN Fail(HTTPException(404, "no candidates"))
            ELSE IF eligible_words = <<>>
            THEN Fail(HTTPException(404, "all suppressed"))
            ELSE \E target_word \in weighted_choice(eligible_words, word_frequency) :
                    /\ local' = [local EXCEPT ![r] =
                           [NoLocals EXCEPT !.sentence = context_sentence,
                                            !.target_word = target_word]]
                    /\ pc' = [pc EXCEPT ![r] = "inc_update"]
                    /\ response' = [response EXCEPT ![r] = Pending]
                    /\ hist' = [hist EXCEPT ![r] = NoHist]
    /\ UNCHANGED <<now, rate_limit_count, increments, limiter_vars, db_vars>>

\* increment_word_frequency: the UPDATE, which takes the write lock.
IncrementUpdate(r) ==
    /\ pc[r] = "inc_update"
    /\ db_lock = 0
    /\ db_lock' = r
    /\ IF \E row \in word_frequency : row.word = local[r].target_word
       THEN /\ db_uncommitted' = UpdateFrequency(word_frequency, local[r].target_word)
            /\ pc' = [pc EXCEPT ![r] = "inc_commit"]
       ELSE /\ db_uncommitted' = word_frequency
            /\ pc' = [pc EXCEPT ![r] = "inc_insert"]
    /\ UNCHANGED <<now, rate_limit_count, arrivals, increments, limiter_vars, translation_cache,
                   word_frequency, word_memory, local, disconnected, response, hist>>

\* increment_word_frequency: cursor.rowcount == 0, so the INSERT; a row with
\* this primary key makes it raise IntegrityError and the connection is closed.
IncrementInsert(r) ==
    /\ pc[r] = "inc_insert"
    /\ IF \E row \in db_uncommitted : row.word = local[r].target_word
       THEN /\ db_uncommitted' = word_frequency
            /\ db_lock' = 0
            /\ hist' = [hist EXCEPT ![r].exc = OtherError("IntegrityError")]
            /\ Finish(r, translate_word_except(OtherError("IntegrityError")))
       ELSE /\ db_uncommitted' = InsertFrequency(db_uncommitted, local[r].target_word)
            /\ pc' = [pc EXCEPT ![r] = "inc_commit"]
            /\ UNCHANGED <<db_lock, hist, response>>
    /\ UNCHANGED <<now, rate_limit_count, arrivals, increments, limiter_vars, translation_cache,
                   word_frequency, word_memory, local, disconnected>>

\* increment_word_frequency: db.commit() (then get_word_frequency for the log
\* line), up to the SELECT of TranslationCache.get.
IncrementCommit(r) ==
    /\ pc[r] = "inc_commit"
    /\ word_frequency' = db_uncommitted
    /\ db_lock' = 0
    /\ hist' = [hist EXCEPT ![r].selected = TRUE]
    /\ increments' = [increments EXCEPT ![local[r].target_word] = @ + 1]
    /\ pc' = [pc EXCEPT ![r] = "cache_get"]
    /\ UNCHANGED <<now, rate_limit_count, arrivals, limiter_vars, translation_cache,
                   word_memory, db_uncommitted, local, disconnected, response>>

\* TranslationCache.get and `if cached:`: a hit is returned, a miss goes on
\* into translation_provider.translate.
CacheGet(r) ==
    /\ pc[r] = "cache_get"
    /\ LET cached == cache_get(translation_cache, local[r].sentence, local[r].target_word)
           h == [hist[r] EXCEPT !.cached = cached, !.looked_up = TRUE]
       IN  IF Truthy(cached)
           THEN /\ hist' = [hist EXCEPT ![r] = h]
                /\ Finish(r, Translated(local[r].target_word, cached[1], TRUE))
                /\ UNCHANGED <<limiter_vars, local>>
           ELSE /\ TranslateCall(r, local[r], h)
                /\ UNCHANGED response
    /\ UNCHANGED <<now, rate_limit_count, arrivals, increments, db_vars, disconnected>>

\* The length check left out: no content is too long.
TooLongNever(translated_content) == FALSE

\* if len(translated_content) > 30: raise ValueError
TooLong(translated_content) == Len(translated_content) > MaxTranslationLen

\* The provider's HTTP call comes back: raise_for_status, _parse_response and
\* the length check, then TranslationCache.set up to its INSERT.
ProviderReply(r) ==
    /\ pc[r] = "provider"
    /\ \E reply \in ProviderReplies :
        LET Fail(e) == /\ hist' = [hist EXCEPT ![r].exc = e]
                       /\ Finish(r, translate_word_except(e))
                       /\ UNCHANGED local
        IN  IF reply.kind # "content"
            THEN Fail(OtherError(reply.kind))
            ELSE IF TooLong(reply.content)
            THEN Fail(OtherError("ValueError"))
            ELSE /\ local' = [local EXCEPT ![r].translated_content = reply.content,
                                           ![r].timestamp = now]
                 /\ pc' = [pc EXCEPT ![r] = "cache_set"]
                 /\ UNCHANGED <<response, hist>>
    /\ UNCHANGED <<now, rate_limit_count, arrivals, increments, limiter_vars, db_vars, disconnected>>

\* TranslationCache.set: INSERT OR REPLACE and commit, then the response.
CacheSet(r) ==
    /\ pc[r] = "cache_set"
    /\ db_lock = 0
    /\ translation_cache' = cache_set(translation_cache, local[r].sentence,
            local[r].target_word, local[r].translated_content, local[r].timestamp)
    /\ hist' = [hist EXCEPT ![r].cache_written = TRUE]
    /\ Finish(r, Translated(local[r].target_word, local[r].translated_content, FALSE))
    /\ UNCHANGED <<now, rate_limit_count, arrivals, increments, limiter_vars, word_frequency, word_memory,
                   db_lock, db_uncommitted, local, disconnected>>

\* ------------------------------------------------------- mark_word_as_easy
\* request.json(), the check on the word, the SELECT of its level and the new
\* level and suppress_until, up to the INSERT OR REPLACE.
MarkEasyBegin(r) ==
    /\ Arrives(r)
    /\ \E word \in MarkWords :
        IF word = ""
        THEN /\ hist' = [hist EXCEPT ![r] =
                    [NoHist EXCEPT !.exc = HTTPException(400, "word required")]]
             /\ Finish(r, mark_word_as_easy_except(HTTPException(400, "word required")))
             /\ local' = [local EXCEPT ![r] = NoLocals]
        ELSE LET new_level == current_level(word_memory, word) + 1
                 suppress_duration_seconds == days_to_suppress(new_level) * SecondsPerDay
             IN  /\ local' = [local EXCEPT ![r] =
                        [NoLocals EXCEPT !.word = word,
                                         !.new_level = new_level,
                                         !.suppress_until = now + suppress_duration_seconds]]
                 /\ pc' = [pc EXCEPT ![r] = "me_write"]
                 /\ response' = [response EXCEPT ![r] = Pending]
                 /\ hist' = [hist EXCEPT ![r] = NoHist]
    /\ UNCHANGED <<now, rate_limit_count, increments, limiter_vars, db_vars>>

\* INSERT OR REPLACE INTO word_memory and commit, then the response.
MarkEasyWrite(r) ==
    /\ pc[r] = "me_write"
    /\ db_lock = 0
    /\ word_memory' = memory_set(word_memory, local[r].word, local[r].new_level,
                                 local[r].suppress_until)
    /\ Finish(r, Marked(local[r].word, local[r].new_level,
                        days_to_suppress(local[r].new_level)))
    /\ UNCHANGED <<now, rate_limit_count, arrivals, increments, limiter_vars, translation_cache,
                   word_frequency, db_lock, db_uncommitted, local, disconnected, hist>>

\* ------------------------------------------------------------------- clock
\* time.time() advances.
TickTo(max) ==
    /\ now < max
    /\ now' = now + 1
    /\ UNCHANGED <<rate_limit_count, arrivals, increments, limiter_vars, db_vars, pc, local,
                   disconnected, response, hist>>

Tick == TickTo(MaxTime)
LimiterTick == TickTo(MaxLimiterTime)
MarkEasyTick == TickTo(MaxMarkEasyTime)

\* A clock that never stops, on a bounded dial: once now has reached
\* MaxLimiterTime a tick moves every recorded time one second back instead of
\* moving now forward.  A time that falls off the dial stays at 0: it is more
\* than a period old (MaxLimiterTime > rate_limit_period), so it is pruned
\* before it is read and a wait that ends at it is over.
Earlier(t) == IF t > 0 THEN t - 1 ELSE 0
EarlierAll(ts) == [i \in 1..Len(ts) |-> Earlier(ts[i])]

LiveTick ==
    IF now < MaxLimiterTime
    THEN LimiterTick
    ELSE /\ request_timestamps' = EarlierAll(request_timestamps)
         /\ local' = [r \in Requests |->
                [local[r] EXCEPT !.current_time = Earlier(@), !.end_time = Earlier(@)]]
         /\ hist' = [r \in Requests |->
                [hist[r] EXCEPT !.before = EarlierAll(@), !.after = EarlierAll(@)]]
         /\ UNCHANGED <<now, rate_limit_count, rate_limit_lock, arrivals, increments,
                        db_vars, pc, disconnected, response>>

\* ---------------------------------------------------------- specifications
\* The service under NumRequests concurrent requests.
Next ==
    \/ Tick
    \/ \E r \in Requests : TranslateBegin(r)
    \/ \E r \in Requests : IncrementUpdate(r)
    \/ \E r \in Requests : IncrementInsert(r)
    \/ \E r \in Requests : IncrementCommit(r)
    \/ \E r \in Requests : CacheGet(r)
    \/ \E r \in Requests : LockGranted(r)
    \/ \E r \in Requests : PollDisconnect(r)
    \/ \E r \in Requests : WakeUp(r)
    \/ \E r \in Requests : Recheck(r)
    \/ \E r \in Requests : Disconnect(r)
    \/ \E r \in Requests : ProviderReply(r)
    \/ \E r \in Requests : CacheSet(r)
    \/ \E r \in Requests : MarkEasyBegin(r)
    \/ \E r \in Requests : MarkEasyWrite(r)

Spec == Init /\ [][Next]_vars

\* TranslationProvider.translate under NumCallers concurrent callers.
InitLimiter == InitWith(NumCallers, MaxLimiterCapacity)

NextLimiter ==
    \/ LimiterTick
    \/ \E r \in Requests : CallTranslate(r)
    \/ \E r \in Requests : LockGranted(r)
    \/ \E r \in Requests : PollDisconnect(r)
    \/ \E r \in Requests : WakeUp(r)
    \/ \E r \in Requests : Recheck(r)
    \/ \E r \in Requests : Disconnect(r)

SpecLimiter == InitLimiter /\ [][NextLimiter]_vars

\* The service with the rate limiter disabled, under a clock that goes from
\* one instant to any later one: words are marked easy and the day they are
\* suppressed for goes by.
Instants == {t \in {d * SecondsPerDay + k : d \in 0..MaxDays, k \in {-1, 0, 1}} : t >= 0}

SuppressTick ==
    /\ \E t \in Instants : t > now /\ now' = t
    /\ UNCHANGED <<rate_limit_count, arrivals, increments, limiter_vars, db_vars, pc, local,
                   disconnected, response, hist>>

InitSuppress == InitWith(NumRequests, 0)

NextSuppress ==
    \/ SuppressTick
    \/ \E r \in Requests : TranslateBegin(r)
    \/ \E r \in Requests : IncrementUpdate(r)
    \/ \E r \in Requests : IncrementInsert(r)
    \/ \E r \in Requests : IncrementCommit(r)
    \/ \E r \in Requests : CacheGet(r)
    \/ \E r \in Requests : Recheck(r)
    \/ \E r \in Requests : Disconnect(r)
    \/ \E r \in Requests : ProviderReply(r)
    \/ \E r \in Requests : CacheSet(r)
    \/ \E r \in Requests : MarkEasyBegin(r)
    \/ \E r \in Requests : MarkEasyWrite(r)

SpecSuppress == InitSuppress /\ [][NextSuppress]_vars

\* TranslationProvider.translate under a clock that keeps advancing and an
\* event loop that runs every coroutine that can run: the lock's first waiter
\* when the lock is released, the poll and the wake-up of the wait loop.
NextLive ==
    \/ LiveTick
    \/ \E r \in Requests : CallTranslate(r)
    \/ \E r \in Requests : LockGranted(r)
    \/ \E r \in Requests : PollDisconnect(r)
    \/ \E r \in Requests : WakeUp(r)
    \/ \E r \in Requests : Recheck(r)
    \/ \E r \in Requests : Disconnect(r)

SpecLive ==
    /\ InitLimiter
    /\ [][NextLive]_vars
    /\ WF_vars(LiveTick)
    /\ \A r \in 1..NumCallers :
        /\ WF_vars(LockGranted(r))
        /\ WF_vars(PollDisconnect(r))
        /\ WF_vars(WakeUp(r))

\* get_eligible_words applied to a list of words, over a word_memory table and
\* at a time that are all drawn from bounded sets.
WordLists == UNION {[1..n -> Words] : n \in 0..MaxWords}
MemoryRows == [word : Words, level : {1}, suppress_until : 0..MaxSuppressUntil]
MemoryTables ==
    {rows \in SUBSET MemoryRows :
        \A m1, m2 \in rows : m1.word = m2.word => m1 = m2}

InitEligible ==
    /\ now \in 0..MaxSuppressUntil
    /\ rate_limit_count = 0
    /\ request_timestamps = <<>>
    /\ rate_limit_lock = [holder |-> 0, waiters |-> <<>>]
    /\ translation_cache = {}
    /\ word_frequency = {}
    /\ word_memory \in MemoryTables
    /\ db_lock = 0
    /\ db_uncommitted = {}
    /\ pc = [r \in 1..1 |-> "idle"]
    /\ \E words \in WordLists : local = [r \in 1..1 |-> [NoLocals EXCEPT !.words = words]]
    /\ disconnected = [r \in 1..1 |-> FALSE]
    /\ response = [r \in 1..1 |-> Pending]
    /\ hist = [r \in 1..1 |-> NoHist]
    /\ arrivals = 0
    /\ increments = [word \in Words |-> 0]

FilterEligible(r) ==
    /\ pc[r] = "idle"
    /\ local' = [local EXCEPT ![r].eligible =
                     get_eligible_words(local[r].words, word_memory, now)]
    /\ pc' = [pc EXCEPT ![r] = "done"]
    /\ UNCHANGED <<now, rate_limit_count, arrivals, increments, limiter_vars, db_vars,
                   disconnected, response, hist>>

NextEligible == \E r \in Requests : FilterEligible(r)

SpecEligible == InitEligible /\ [][NextEligible]_vars

\* TranslationCache.set and TranslationCache.get called by NumRequests callers
\* on sentences, words and translations drawn from the inputs.
CachedContents == {c \in Contents : ~TooLong(c)}

CacheSetCall(r) ==
    /\ Arrives(r)
    /\ \E sentence \in Sentences, target_word \in Words, translation \in CachedContents :
        /\ translation_cache' = cache_set(translation_cache, sentence, target_word,
                                          translation, now)
        /\ local' = [local EXCEPT ![r] =
               [NoLocals EXCEPT !.sentence = sentence, !.target_word = target_word,
                                !.translated_content = translation, !.timestamp = now]]
        /\ hist' = [hist EXCEPT ![r] = [NoHist EXCEPT !.cache_written = TRUE]]
    /\ pc' = [pc EXCEPT ![r] = "done"]
    /\ UNCHANGED <<now, rate_limit_count, increments, limiter_vars, word_frequency,
                   word_memory, db_lock, db_uncommitted, response>>

CacheGetCall(r) ==
    /\ Arrives(r)
    /\ \E sentence \in Sentences, target_word \in Words :
        /\ local' = [local EXCEPT ![r].sentence = sentence, ![r].target_word = target_word]
        /\ hist' = [hist EXCEPT ![r] =
               [NoHist EXCEPT !.looked_up = TRUE,
                              !.cached = cache_get(translation_cache, sentence, target_word)]]
    /\ pc' = [pc EXCEPT ![r] = "done"]
    /\ UNCHANGED <<now, rate_limit_count, increments, limiter_vars, db_vars, response>>

InitCache == InitWith(NumRequests, 0)

NextCache ==
    \/ Tick
    \/ \E r \in Requests : CacheSetCall(r)
    \/ \E r \in Requests : CacheGetCall(r)

SpecCache == InitCache /\ [][NextCache]_vars

\* mark_word_as_easy called again and again on the same word, each call after
\* the one before it has returned.
InitMarkEasy == InitWith(1, MaxCapacity)

MarkEasyCall(r) == MarkEasyBegin(r) /\ local'[r].word = "mao"

NextMarkEasy ==
    \/ MarkEasyTick
    \/ \E r \in Requests : MarkEasyCall(r)
    \/ \E r \in Requests : MarkEasyWrite(r)

SpecMarkEasy == InitMarkEasy /\ [][NextMarkEasy]_vars

\* ------------------------------------------------- claims: the rate limiter
\* The admitted calls whose timestamp t has now - period < t <= now.  A
\* timestamp is dropped from request_timestamps only once it is older than a
\* period, so every admission of the trailing period is still in the deque.
InWindow ==
    {i \in 1..Len(request_timestamps) :
        /\ now - rate_limit_period < request_timestamps[i]
        /\ request_timestamps[i] <= now}

\* C1: with rate_limit_count > 0, the admissions within the trailing period
\* never exceed rate_limit_count.
C1_WindowWithinCapacity ==
    rate_limit_count > 0 => Cardinality(InWindow) <= rate_limit_count

C3_WaitsWithoutLock ==
    \A r \in Requests :
        pc[r] \in {"rl_poll", "rl_sleep"} => rate_limit_lock.holder # r

\* C9, for a request waiting behind other acquirers: once its caller has
\* disconnected while it is queued for the lock, it is not admitted.
C9_DisconnectedNeverAdmitted ==
    [][\A r \in Requests :
        (pc[r] = "rl_lock" /\ disconnected[r]) => hist'[r].acquire # "admitted"]_vars
\* ----------------------------------------------------- claims: the service
\* The exceptions the handlers raise for a request they reject themselves.
Validation == {HTTPException(400, "sentence required"),
               HTTPException(404, "no candidates"),
               HTTPException(404, "all suppressed"),
               HTTPException(400, "word required")}

\* C4: a request rejected by local validation ends in a client error (4xx)
\* that keeps the validation's own status and message, so that "all
\* suppressed" and "no candidates" differ; a 502 answers provider failures only.
C4_ValidationIsClientError ==
    \A r \in Requests :
        pc[r] = "done" =>
            /\ hist[r].exc \in Validation =>
                /\ response[r].status_code = hist[r].exc.status_code
                /\ response[r].detail = hist[r].exc.detail
            /\ response[r].status_code = 502 => hist[r].provider_called

\* C5: a request whose cache lookup found a row, whatever its translation,
\* returns that translation with from_cache = TRUE and has neither entered the
\* rate limiter, nor called the provider, nor written the cache.
C5_HitServedFromCache ==
    \A r \in Requests :
        (hist[r].looked_up /\ hist[r].cached # <<>>) =>
            /\ pc[r] = "done"
            /\ response[r] = Translated(local[r].target_word, hist[r].cached[1], TRUE)
            /\ hist[r].acquire = ""
            /\ ~hist[r].provider_called
            /\ ~hist[r].cache_written

\* C6: under every interleaving no increment fails and none is lost: each
\* word has one row at most, and its committed frequency is the number of
\* increment_word_frequency calls made for it that have returned.
C6_NoIncrementLost ==
    /\ \A r \in Requests : hist[r].exc.type # "IntegrityError"
    /\ \A word \in Words :
        /\ Cardinality({row \in word_frequency : row.word = word}) <= 1
        /\ get_word_frequency(word_frequency, word) = increments[word]

\* C6's case: two requests in flight on the same unseen word; one has inserted
\* the row at 1 and returned, the other has updated it to 2 and not committed.
C6_Witness ==
    \E r1, r2 \in Requests :
        /\ r1 # r2
        /\ local[r1].target_word = local[r2].target_word
        /\ hist[r1].selected /\ pc[r1] = "cache_get"
        /\ pc[r2] = "inc_commit"
        /\ get_word_frequency(word_frequency, local[r2].target_word) = 1
        /\ get_word_frequency(db_uncommitted, local[r2].target_word) = 2

\* C7: a request that raised ClientDisconnectedError (in the rate limiter's
\* wait or at the re-check) has ended with no response: not the 502, no
\* provider call and no cache write.
C7_CancelledIsSilent ==
    \A r \in Requests :
        hist[r].exc = ClientDisconnectedError =>
            /\ pc[r] = "done"
            /\ response[r] = ReturnNone
            /\ ~hist[r].provider_called
            /\ ~hist[r].cache_written

\* C7's cases: a request cancelled in the wait, and one cancelled at the
\* re-check after it was admitted.
C7_Witness ==
    /\ \E r \in Requests :
        hist[r].exc = ClientDisconnectedError /\ hist[r].acquire = "cancelled"
    /\ \E r \in Requests :
        hist[r].exc = ClientDisconnectedError /\ hist[r].acquire = "admitted"

\* C8: every write of mark_word_as_easy stores a level and a suppress_until
\* strictly above those of the row it replaces.
C8_MarkEasyStrictlyIncreases ==
    [][\A r \in Requests :
        (pc[r] = "me_write" /\ pc'[r] = "done") =>
            \A old \in {row \in word_memory : row.word = local[r].word} :
            \A new \in {row \in word_memory' : row.word = local[r].word} :
                /\ new.level > old.level
                /\ new.suppress_until > old.suppress_until]_vars

\* C10: a request's increment is committed, by exactly 1, when it goes on to
\* the cache lookup; every request at or past the lookup, whatever its
\* outcome, has made it; and no step lowers a word's frequency.
C10_SelectionCounted ==
    [][/\ \A word \in Words :
            get_word_frequency(word_frequency', word)
                >= get_word_frequency(word_frequency, word)
       /\ \A r \in Requests :
            (pc[r] = "inc_commit" /\ pc'[r] # "inc_commit") =>
                /\ pc'[r] = "cache_get"
                /\ get_word_frequency(word_frequency', local[r].target_word)
                    = get_word_frequency(word_frequency, local[r].target_word) + 1
       /\ \A r \in Requests :
            (hist'[r].looked_up \/ response'[r].kind \in {"ok", "none"}
                \/ hist'[r].provider_called) =>
                (local'[r].target_word # "" => hist'[r].selected)]_vars

\* C10's case: a request that was cancelled after its word was counted, the
\* count still being there.
C10_Witness ==
    \E r \in Requests :
        /\ pc[r] = "done" /\ response[r] = ReturnNone
        /\ hist[r].selected
        /\ get_word_frequency(word_frequency, local[r].target_word) >= 1
\* What translate raises when the provider fails: the transport, the status,
\* the shape of the body, the length of the content.
ProviderErrors == {"RequestError", "HTTPStatusError", "KeyError", "ValueError"}

\* C11: a request that ends in a provider error leaves the translation cache
\* as it was; the cache changes only by the row that a request writes for its
\* own (sentence, word) with the content the provider returned to it, and no
\* row ever holds a translation of more than 30 characters.
C11_FailureNeverCached ==
    [][/\ \A r \in Requests :
            (pc[r] # "done" /\ pc'[r] = "done" /\ hist'[r].exc.type \in ProviderErrors) =>
                translation_cache' = translation_cache
       /\ translation_cache' # translation_cache =>
            \E r \in Requests :
                /\ pc[r] = "cache_set" /\ pc'[r] = "done"
                /\ hist[r].provider_called /\ hist[r].exc = NoException
                /\ local[r].translated_content \in Contents
                /\ translation_cache' \ translation_cache =
                       {[key |-> generate_key(local[r].sentence, local[r].target_word),
                         sentence |-> local[r].sentence,
                         target_word |-> local[r].target_word,
                         translation |-> local[r].translated_content,
                         timestamp |-> local[r].timestamp]}
       /\ \A row \in translation_cache' :
            Len(row.translation) <= MaxTranslationLen]_vars

\* C11's case: the provider's content was too long for one request, after
\* another request's translation was cached; the cache holds that one only.
C11_Witness ==
    \E r \in Requests :
        /\ pc[r] = "done" /\ hist[r].provider_called
        /\ hist[r].exc.type = "ValueError"
        /\ response[r].status_code = 502
        /\ translation_cache # {}
\* C12: of consecutive mark-easy calls on a word not marked before, the n-th
\* computes new_level = n and suppress_until = (time of the call) + n^2 * 86400,
\* returns new_level n and suppress_days n^2, and stores a row of level n whose
\* suppress_until is above the one it replaces.
C12_ConsecutiveMarkEasy ==
    [][\A r \in Requests :
        /\ (pc[r] # "me_write" /\ pc'[r] = "me_write") =>
            /\ local'[r].new_level = arrivals'
            /\ local'[r].suppress_until = now + arrivals' * arrivals' * 86400
        /\ (pc[r] = "me_write" /\ pc'[r] = "done") =>
            /\ response'[r] = Marked("mao", arrivals, arrivals * arrivals)
            /\ word_memory' = {[word |-> "mao", level |-> arrivals,
                                suppress_until |-> local[r].suppress_until]}
            /\ \A old \in word_memory :
                local[r].suppress_until > old.suppress_until]_vars

\* C12's case: the third consecutive call has returned level 3 and 9 days.
C12_Witness ==
    \E r \in Requests :
        /\ pc[r] = "done" /\ arrivals = 3
        /\ response[r].new_level = 3 /\ response[r].suppress_days = 9
        /\ \E row \in word_memory : row.level = 3
\* A word is suppressed when word_memory has a row for it with suppress_until > now.
Suppressed(word) ==
    \E m \in word_memory : m.word = word /\ m.suppress_until > now

\* C13: get_eligible_words returns the words given to it that are not
\* suppressed, each as often and in the order it was given: the result is the
\* input with exactly the positions of suppressed words left out.  An empty
\* input gives an empty result.
C13_FilterEligible ==
    \A r \in Requests :
        pc[r] = "done" =>
            LET words == local[r].words
                eligible == local[r].eligible
                kept == {i \in 1..Len(words) : ~Suppressed(words[i])}
            IN  /\ Len(eligible) = Cardinality(kept)
                /\ \A j \in 1..Len(eligible) :
                    \E i \in kept :
                        /\ eligible[j] = words[i]
                        /\ Cardinality({k \in kept : k < i}) = j - 1
                /\ \A i \in 1..Len(words) :
                    (\E j \in 1..Len(eligible) : eligible[j] = words[i])
                        <=> ~Suppressed(words[i])
                /\ words = <<>> => eligible = <<>>

\* C13's case: of two words, the first has a row that ran out at this very
\* time and is returned, the second is still suppressed and is left out.
C13_Witness ==
    \E r \in Requests :
        /\ pc[r] = "done"
        /\ local[r].words = <<"mao", "zuo">>
        /\ local[r].eligible = <<"mao">>
        /\ \E m \in word_memory : m.word = "mao" /\ m.suppress_until = now
        /\ Suppressed("zuo")
\* The rows of the cache stored for a (sentence, word) pair.
RowsFor(rows, sentence, target_word) ==
    {row \in rows : row.sentence = sentence /\ row.target_word = target_word}

\* C14: after a set, the cache holds for the pair one row, with the
\* translation just given, whatever was stored for it before; a get returns the
\* translation of the pair's row, None if there is none, and leaves the cache
\* as it was.
C14_GetAfterSet ==
    [][\A r \in Requests :
        /\ (hist'[r].cache_written /\ (hist'[r] # hist[r] \/ local'[r] # local[r])) =>
            RowsFor(translation_cache', local'[r].sentence, local'[r].target_word)
                = {[key |-> generate_key(local'[r].sentence, local'[r].target_word),
                    sentence |-> local'[r].sentence,
                    target_word |-> local'[r].target_word,
                    translation |-> local'[r].translated_content,
                    timestamp |-> now]}
        /\ (hist'[r].looked_up /\ (hist'[r] # hist[r] \/ local'[r] # local[r])) =>
            /\ translation_cache' = translation_cache
            /\ LET found == RowsFor(translation_cache, local'[r].sentence,
                                    local'[r].target_word)
               IN  IF found = {}
                   THEN hist'[r].cached = <<>>
                   ELSE \E row \in found : hist'[r].cached = <<row.translation>>]_vars

\* C14's case: one caller stored "cat" for a pair, another then stored "" for
\* the same pair, and the first caller's get returned "".
C14_Witness ==
    \E r1, r2 \in Requests :
        /\ r1 # r2 /\ arrivals = 3
        /\ local[r1].sentence = local[r2].sentence
        /\ local[r1].target_word = local[r2].target_word
        /\ local[r1].translated_content = "cat"
        /\ hist[r2].cache_written /\ local[r2].translated_content = ""
        /\ hist[r1].looked_up /\ hist[r1].cached = <<"">>
\* C15: with rate_limit_count = c > 0, each of the first c calls is admitted
\* in the step that makes it, its timestamp the time of the call, appended to
\* what is left of the window.  The
\* (c+1)-th call, made while the c timestamps are less than a period old, is
\* not admitted then: it waits for the oldest timestamp + period, leaving the
\* window alone.  A waiting call is admitted at no earlier time than the one it
\* waits for, and the first time it wakes up at or after that time.
C15_FirstAdmittedNextWaits ==
    [][\A r \in Requests :
        /\ (rate_limit_count > 0 /\ pc[r] = "idle" /\ pc'[r] # "idle") =>
            /\ arrivals' <= rate_limit_count =>
                /\ hist'[r].acquire = "admitted"
                /\ pc'[r] = "recheck"
                /\ \E k \in 0..Len(request_timestamps) :
                    request_timestamps' =
                        Append(SubSeq(request_timestamps, k + 1, Len(request_timestamps)), now)
            /\ (/\ arrivals' = rate_limit_count + 1
                /\ Len(request_timestamps) = rate_limit_count
                /\ now < Head(request_timestamps) + rate_limit_period) =>
                /\ hist'[r].acquire = "waiting"
                /\ local'[r].end_time = Head(request_timestamps) + rate_limit_period
                /\ request_timestamps' = request_timestamps
        /\ (hist[r].acquire = "waiting" /\ hist'[r].acquire = "admitted") =>
            /\ now >= local[r].end_time
            /\ request_timestamps' = Append(request_timestamps, now)
        /\ (pc[r] = "rl_sleep" /\ pc'[r] # "rl_sleep" /\ now >= local[r].end_time) =>
            hist'[r].acquire = "admitted"]_vars

\* C15's case: c calls were admitted, the next one waited for the oldest
\* timestamp to be a period old and was admitted then.
C15_Witness ==
    \E r \in Requests :
        /\ rate_limit_count > 0
        /\ hist[r].acquire = "admitted"
        /\ Len(hist[r].before) = rate_limit_count
        /\ local[r].end_time = Head(hist[r].before) + rate_limit_period
        /\ hist[r].after = Append(hist[r].before, local[r].end_time)
\* C16: with rate_limit_count = 0 no call ever waits, queues or is cancelled
\* in the limiter: every call made goes straight on to the re-check, and the
\* window stays empty and the lock free however many calls were made.
C16_DisabledNeverLimits ==
    rate_limit_count = 0 =>
        /\ request_timestamps = <<>>
        /\ rate_limit_lock = [holder |-> 0, waiters |-> <<>>]
        /\ \A r \in Requests :
            /\ pc[r] \notin {"rl_lock", "rl_poll", "rl_sleep"}
            /\ pc[r] # "idle" => hist[r].acquire = "unlimited"
            /\ hist[r].before = <<>> /\ hist[r].after = <<>>

\* C16's case: every call of the run was made with the limiter disabled.
C16_Witness ==
    /\ rate_limit_count = 0
    /\ arrivals = MaxArrivals
    /\ \A r \in Requests : hist[r].acquire = "unlimited"
\* C17: the word a request chooses is a candidate of its sentence and is not
\* suppressed when the request filters; the request keeps that word to its end
\* and a successful response names it.  A request fails as "all suppressed"
\* only if every candidate of its sentence is suppressed then, so a word is
\* eligible again from its suppress_until on.
C17_SelectedNotSuppressed ==
    [][\A r \in Requests :
        /\ (pc[r] \in {"idle", "done"} /\ pc'[r] = "inc_update") =>
            /\ local'[r].target_word \in Tagger(local'[r].sentence)
            /\ ~Suppressed(local'[r].target_word)
        /\ (pc[r] \in {"idle", "done"} /\ pc'[r] = "done"
                /\ hist'[r].exc = HTTPException(404, "all suppressed")
                /\ <<pc[r], hist[r]>> # <<pc'[r], hist'[r]>>) =>
            \A word \in Tagger(local'[r].sentence) : Suppressed(word)
        /\ (pc[r] \notin {"idle", "done", "me_write"}) =>
            /\ local'[r].target_word = local[r].target_word
            /\ local'[r].sentence = local[r].sentence
            /\ (pc'[r] = "done" /\ response'[r].kind = "ok") =>
                response'[r].target_word = local[r].target_word]_vars

\* C17's case: "mao" was marked easy once, a day has gone by, and the next
\* request, made at its suppress_until or later, was answered with "mao".
C17_Witness ==
    \E r \in Requests :
        /\ arrivals = 2 /\ \A r2 \in Requests \ {r} : pc[r2] = "idle"
        /\ pc[r] = "done" /\ response[r].kind = "ok"
        /\ response[r].target_word = "mao" /\ local[r].sentence = "maozuo"
        /\ \E m \in word_memory :
            m.word = "mao" /\ m.level = 1 /\ m.suppress_until <= local[r].timestamp
\* C18: request_timestamps is in non-decreasing order and, when the limiter
\* is enabled, never holds more than rate_limit_count timestamps.
C18_WindowSortedAndBounded ==
    /\ \A i, j \in 1..Len(request_timestamps) :
        i <= j => request_timestamps[i] <= request_timestamps[j]
    /\ rate_limit_count > 0 => Len(request_timestamps) <= rate_limit_count
\* C19: a call that is between its prune and its append holds the lock; there
\* is one such call at most, the lock is held by no other kind of call, and
\* while there is one the window is changed by its own append only.
C19_WindowUnderLock ==
    [][/\ \A r \in Requests :
            pc[r] \in {"rl_poll", "rl_sleep"} =>
                /\ rate_limit_lock.holder = r
                /\ \A r2 \in Requests \ {r} : pc[r2] \notin {"rl_poll", "rl_sleep"}
                /\ request_timestamps' # request_timestamps =>
                    /\ pc'[r] = "recheck"
                    /\ request_timestamps' = Append(request_timestamps, now)
       /\ rate_limit_lock.holder # 0 =>
            pc[rate_limit_lock.holder] \in {"rl_poll", "rl_sleep"}]_vars

\* C19's case: one call is in its wait, between prune and append, and the
\* call made since is queued for the lock, the window as the first left it.
C19_Witness ==
    \E r \in Requests :
        /\ pc[r] = "rl_sleep"
        /\ Len(rate_limit_lock.waiters) = 1
        /\ pc[rate_limit_lock.waiters[1]] = "rl_lock"
        /\ request_timestamps = PopExpired(hist[r].before, local[r].current_time - rate_limit_period)
\* C20: every call that is queued for the lock or in the wait loop eventually
\* leaves the limiter, admitted or cancelled.
C20_EveryAcquireReturns ==
    \A r \in 1..NumCallers :
        (pc[r] \in {"rl_lock", "rl_poll", "rl_sleep"})
            ~> (/\ pc[r] \notin {"rl_lock", "rl_poll", "rl_sleep"}
                /\ hist[r].acquire \in {"admitted", "cancelled"})

\* C20's case: with room for one call per period, a call waited out its time
\* and has returned admitted, and the lock it released is owed to the call
\* that queued behind it.
C20_Witness ==
    /\ rate_limit_count = 1
    /\ rate_limit_lock.holder = 0
    /\ \E r1, r2 \in Requests :
        /\ hist[r1].acquire = "admitted"
        /\ local[r1].end_time > local[r1].current_time
        /\ pc[r1] = "recheck"
        /\ rate_limit_lock.waiters = <<r2>>
        /\ pc[r2] = "rl_lock"
====
